---- MODULE Spec2Model ----
(***************************************************************************)
(* Model of the engine pool of supertts (src/src/engine_pool.rs) and of    *)
(* the request handler that uses it (tts_speech in src/src/api_server.rs). *)
(*                                                                         *)
(* Every task runs the pool branch of tts_speech: checkout, then           *)
(* get_voice_style, then EngineHandle::engine, then the engine mutex and   *)
(* the synthesis call.  Each .await of the source is one step of a task,   *)
(* so that tasks interleave exactly where the source can be suspended.     *)
(* The file system (the style files) and _shutdown are the environment.    *)
(***************************************************************************)
EXTENDS Integers, FiniteSets, Sequences, TLC

\* ------------------------------------------------------------------ bounds
NumTasks == 2
MaxPoolSize == 2
MaxCacheSize == 1
MaxEngines == 3
MaxMods == 1
MaxLookups == 4
MaxLookupCacheSize == 2
MaxConfigSize == 11
MaxConfigCacheSize == 1
NumLockTasks == 3

\* "Engine pool size must be between 1 and 10"
PoolSizeLimit == 10

Tasks == 1..NumTasks
Paths == {"A", "B"}
EngineIds == 1..MaxEngines
Callers == 1..MaxLookups
LookupPaths == {"A", "B", "C"}
LockTasks == 1..NumLockTasks
NoEngine == 0
NoTask == 0
NoEntry == [voice_style |-> -1, last_accessed |-> -1, file_modified |-> -1]
NoStyle == -1

VARIABLES
    pool_size,        \* config.engine_pool_size
    cache_size,       \* config.voice_style_cache_size
    warmup_on_startup, \* config.warmup_on_startup
    permits,          \* semaphore.available_permits()
    engines,          \* keys of the engines map
    created,          \* number of engine ids generated so far (Uuid::new_v4)
    engineLock,       \* the Mutex<TextToSpeech> of each engine: its holder
    total_checkouts,  \* stats.total_checkouts
    cache_hits,       \* stats.cache_hits
    cache_misses,     \* stats.cache_misses
    voice_cache,      \* voice_cache: path -> CacheEntry
    file,             \* the style files on disk: content version = mtime
    clock,            \* SystemTime::now()
    evictions,        \* number of "Evicting voice style from cache" events
    pc,               \* position of each task in tts_speech
    handle,           \* the EngineHandle a task holds: its engine_id
    req_path,         \* voice_style_path of the task's request
    style,            \* the Style a task has loaded or was served
    entry,            \* the CacheEntry a task built in add_to_cache
    result,           \* the response of each task's request
    shut_pc,          \* position of the _shutdown call
    new_pc,           \* position and outcome of TTSEnginePool::new
    server,           \* position of start_server
    lockq,            \* the wait queue of each RwLock: <<task, mode>> in FIFO order
    lockheld          \* the guards of each RwLock that are alive: <<task, mode>>

vars == <<pool_size, cache_size, warmup_on_startup, permits, engines, created, engineLock,
          total_checkouts, cache_hits, cache_misses, voice_cache, file, clock,
          evictions, pc, handle, req_path, style, entry, result, shut_pc,
          new_pc, server, lockq, lockheld>>

poolVars == <<permits, engines, created, engineLock, total_checkouts>>
cacheVars == <<cache_hits, cache_misses, voice_cache, clock, evictions>>
confVars == <<pool_size, cache_size, warmup_on_startup>>
startVars == <<new_pc, server>>
lockVars == <<lockq, lockheld>>

\* The three tokio RwLocks of the pool: engines, stats, voice_cache.
Locks == {"engines", "stats", "voice_cache"}

\* No guard is alive and no task waits.
NoLocks ==
    /\ lockq = [l \in Locks |-> <<>>]
    /\ lockheld = [l \in Locks |-> {}]

\* ------------------------------------------------------------------ locks
\* The locks a task holds follow from its position.
\* The permit of checkout is the local _permit: held from the acquire to
\* the return of checkout.
HoldsPermit(t) ==
    pc[t] \in {"count", "check_empty", "create_load", "create_insert", "select"}

\* voice_cache.read() is held across the stats.write().await of the hit path.
CacheReadHeld == \E t \in DOMAIN pc : pc[t] = "hit_count"

\* _shutdown holds engines.write() while it waits for voice_cache.write().
EnginesWriteHeld == shut_pc = "engines_cleared"

\* A handle is live from the return of checkout to the return of tts_speech.
Live(t) == handle[t] # NoEngine
LiveHandles == {t \in Tasks : Live(t)}

\* ------------------------------------------------------------------ Init
\* TTSEnginePool::new: the semaphore has pool_size permits; the engine map
\* holds pool_size engines after warmup, none otherwise.
Init ==
    /\ pool_size \in 1..MaxPoolSize
    /\ cache_size \in 1..MaxCacheSize
    /\ permits = pool_size
    /\ warmup_on_startup \in BOOLEAN
    /\ engines = (IF warmup_on_startup THEN 1..pool_size ELSE {})
    /\ created = (IF warmup_on_startup THEN pool_size ELSE 0)
    /\ engineLock = [e \in EngineIds |-> NoTask]
    /\ total_checkouts = 0
    /\ cache_hits = 0
    /\ cache_misses = 0
    /\ voice_cache = [p \in Paths |-> NoEntry]
    /\ file = [p \in Paths |-> 0]
    /\ clock = 0
    /\ pc = [t \in Tasks |-> "idle"]
    /\ handle = [t \in Tasks |-> NoEngine]
    /\ req_path = [t \in Tasks |-> "A"]
    /\ style = [t \in Tasks |-> NoStyle]
    /\ entry = [t \in Tasks |-> NoEntry]
    /\ result = [t \in Tasks |-> "none"]
    /\ shut_pc = "idle"
    /\ evictions = 0
    /\ new_pc = "ready"
    /\ server = "serving_pool"
    /\ NoLocks

\* ------------------------------------------------------------------ tts_speech
\* The return of tts_speech: the locals (the handle among them) are dropped.
Respond(t, r) ==
    /\ pc' = [pc EXCEPT ![t] = "done"]
    /\ handle' = [handle EXCEPT ![t] = NoEngine]
    /\ style' = [style EXCEPT ![t] = NoStyle]
    /\ entry' = [entry EXCEPT ![t] = NoEntry]
    /\ result' = [result EXCEPT ![t] = r]

StartRequest(t) ==
    /\ pc[t] = "idle"
    /\ \E p \in Paths : req_path' = [req_path EXCEPT ![t] = p]
    /\ pc' = [pc EXCEPT ![t] = "acquire"]
    /\ UNCHANGED <<lockVars, startVars, confVars, poolVars, cacheVars, file, handle, style, entry,
                   result, shut_pc>>

\* ------------------------------------------------------------------ checkout
\* Variant of Acquire: the checkout goes on without taking a permit from
\* the semaphore.
Acquire_NoPermit(t) ==
    /\ pc[t] = "acquire"
    /\ pc' = [pc EXCEPT ![t] = "count"]
    /\ UNCHANGED <<lockVars, startVars, confVars, poolVars, cacheVars, file, handle, req_path,
                   style, entry, result, shut_pc>>

\* timeout(.., semaphore.acquire()) returns the permit.
Acquire(t) ==
    /\ pc[t] = "acquire"
    /\ permits > 0
    /\ permits' = permits - 1
    /\ pc' = [pc EXCEPT ![t] = "count"]
    /\ UNCHANGED <<lockVars, startVars, confVars, engines, created, engineLock, total_checkouts,
                   cacheVars, file, handle, req_path, style, entry, result,
                   shut_pc>>

\* Variant of CheckoutTimeout: the checkout is counted before the permit is
\* awaited, so that a timed-out checkout has bumped total_checkouts.
CheckoutTimeout_CountFirst(t) ==
    /\ pc[t] = "acquire"
    /\ permits = 0
    /\ total_checkouts' = total_checkouts + 1
    /\ Respond(t, "timeout")
    /\ UNCHANGED <<lockVars, startVars, confVars, permits, engines, created, engineLock,
                   cacheVars, file, req_path, shut_pc>>

\* timeout(..) elapses: the acquire is still pending, so no permit is free.
CheckoutTimeout(t) ==
    /\ pc[t] = "acquire"
    /\ permits = 0
    /\ Respond(t, "timeout")
    /\ UNCHANGED <<lockVars, startVars, confVars, poolVars, cacheVars, file, req_path, shut_pc>>

\* stats.total_checkouts += 1
CountCheckout(t) ==
    /\ pc[t] = "count"
    /\ total_checkouts' = total_checkouts + 1
    /\ pc' = [pc EXCEPT ![t] = "check_empty"]
    /\ UNCHANGED <<lockVars, startVars, confVars, permits, engines, created, engineLock,
                   cacheVars, file, handle, req_path, style, entry, result,
                   shut_pc>>

\* if engines.is_empty() { create_engine() }
CheckEmpty(t) ==
    /\ pc[t] = "check_empty"
    /\ ~EnginesWriteHeld
    /\ pc' = [pc EXCEPT ![t] = IF engines = {} THEN "create_load" ELSE "select"]
    /\ UNCHANGED <<lockVars, startVars, confVars, poolVars, cacheVars, file, handle, req_path,
                   style, entry, result, shut_pc>>

\* create_engine: load_text_to_speech succeeds.
LoadEngineOk(t) ==
    /\ pc[t] = "create_load"
    /\ created + Cardinality({u \in Tasks : pc[u] = "create_insert"}) < MaxEngines
    /\ pc' = [pc EXCEPT ![t] = "create_insert"]
    /\ UNCHANGED <<lockVars, startVars, confVars, poolVars, cacheVars, file, handle, req_path,
                   style, entry, result, shut_pc>>

\* Variant of LoadEngineErr: the permit is forgotten instead of dropped on
\* the error return.
LoadEngineErr_LeakPermit(t) ==
    /\ pc[t] = "create_load"
    /\ Respond(t, "load_error")
    /\ UNCHANGED <<lockVars, startVars, confVars, poolVars, cacheVars, file, req_path, shut_pc>>

\* create_engine: load_text_to_speech fails; `?` returns from checkout and
\* drops _permit.
LoadEngineErr(t) ==
    /\ pc[t] = "create_load"
    /\ permits' = permits + 1
    /\ Respond(t, "load_error")
    /\ UNCHANGED <<lockVars, startVars, confVars, engines, created, engineLock, total_checkouts,
                   cacheVars, file, req_path, shut_pc>>

\* create_engine: engines.insert(Uuid::new_v4(), ..)
CreateInsert(t) ==
    /\ pc[t] = "create_insert"
    /\ ~EnginesWriteHeld
    /\ created' = created + 1
    /\ engines' = engines \cup {created + 1}
    /\ pc' = [pc EXCEPT ![t] = "select"]
    /\ UNCHANGED <<lockVars, startVars, confVars, permits, engineLock, total_checkouts,
                   cacheVars, file, handle, req_path, style, entry, result,
                   shut_pc>>

\* engines.keys().next().unwrap(): any key of the map (the iteration order
\* of a HashMap is unspecified); a panic when the map is empty.  Then
\* checkout returns the handle and drops _permit.
SelectEngine(t) ==
    /\ pc[t] = "select"
    /\ ~EnginesWriteHeld
    /\ permits' = permits + 1
    /\ IF engines = {}
         THEN /\ Respond(t, "panic")
         ELSE /\ \E e \in engines : handle' = [handle EXCEPT ![t] = e]
              /\ pc' = [pc EXCEPT ![t] = "style_check"]
              /\ UNCHANGED <<style, entry, result>>
    /\ UNCHANGED <<lockVars, startVars, confVars, engines, created, engineLock, total_checkouts,
                   cacheVars, file, req_path, shut_pc>>

\* ------------------------------------------------------------------ cache
\* Variant of is_valid: an mtime equal to the recorded one counts as newer.
is_valid_NotOlder(e, p) ==
    ~(file[p] >= e.file_modified)

\* CacheEntry::is_valid: the file exists and its mtime is not newer than
\* the recorded one.
is_valid(e, p) ==
    ~(file[p] > e.file_modified)

\* get_voice_style, the cache check under voice_cache.read().
StyleCheck(t) ==
    /\ pc[t] = "style_check"
    /\ LET p == req_path[t]
           e == voice_cache[p]
       IN IF e # NoEntry /\ is_valid(e, p)
            THEN /\ style' = [style EXCEPT ![t] = e.voice_style]
                 /\ pc' = [pc EXCEPT ![t] = "hit_count"]
            ELSE /\ pc' = [pc EXCEPT ![t] = "miss_count"]
                 /\ UNCHANGED style
    /\ UNCHANGED <<lockVars, startVars, confVars, poolVars, cacheVars, file, handle, req_path,
                   entry, result, shut_pc>>

\* Variant of HitCount: the hit path returns without counting the hit.
HitCount_NoCount(t) ==
    /\ pc[t] = "hit_count"
    /\ pc' = [pc EXCEPT ![t] = "engine"]
    /\ UNCHANGED <<lockVars, startVars, confVars, poolVars, cacheVars, file,
                   handle, req_path, style, entry, result, shut_pc>>

\* stats.cache_hits += 1; return Ok(entry.voice_style.clone())
HitCount(t) ==
    /\ pc[t] = "hit_count"
    /\ cache_hits' = cache_hits + 1
    /\ pc' = [pc EXCEPT ![t] = "engine"]
    /\ UNCHANGED <<lockVars, startVars, confVars, poolVars, cache_misses, voice_cache, clock,
                   evictions, file,
                   handle, req_path, style, entry, result, shut_pc>>

\* stats.cache_misses += 1
MissCount(t) ==
    /\ pc[t] = "miss_count"
    /\ cache_misses' = cache_misses + 1
    /\ pc' = [pc EXCEPT ![t] = "style_load"]
    /\ UNCHANGED <<lockVars, startVars, confVars, poolVars, cache_hits, voice_cache, clock,
                   evictions, file,
                   handle, req_path, style, entry, result, shut_pc>>

\* load_voice_style: parses the file's current content.
LoadStyle(t) ==
    /\ pc[t] = "style_load"
    /\ style' = [style EXCEPT ![t] = file[req_path[t]]]
    /\ pc' = [pc EXCEPT ![t] = "entry_new"]
    /\ UNCHANGED <<lockVars, startVars, confVars, poolVars, cacheVars, file, handle, req_path,
                   entry, result, shut_pc>>

\* Variant of LoadStyleErr: the failed load also throws the path's stale
\* entry out of the cache.
LoadStyleErr_DropEntry(t) ==
    /\ pc[t] = "style_load"
    /\ voice_cache' = [voice_cache EXCEPT ![req_path[t]] = NoEntry]
    /\ Respond(t, "voice_style_load_failed")
    /\ UNCHANGED <<lockVars, startVars, confVars, poolVars, cache_hits, cache_misses,
                   clock, evictions, file, req_path, shut_pc>>

\* load_voice_style fails (the file is unreadable or malformed); `?` returns.
LoadStyleErr(t) ==
    /\ pc[t] = "style_load"
    /\ Respond(t, "voice_style_load_failed")
    /\ UNCHANGED <<lockVars, startVars, confVars, poolVars, cacheVars, file, req_path, shut_pc>>

\* CacheEntry::new: std::fs::metadata fails; `?` returns before the cache
\* is locked.
EntryNewErr(t) ==
    /\ pc[t] = "entry_new"
    /\ Respond(t, "voice_style_load_failed")
    /\ UNCHANGED <<lockVars, startVars, confVars, poolVars, cacheVars, file, req_path, shut_pc>>

\* CacheEntry::new: reads the file's mtime and the clock.
EntryNew(t) ==
    /\ pc[t] = "entry_new"
    /\ entry' = [entry EXCEPT ![t] = [voice_style |-> style[t],
                                      last_accessed |-> clock,
                                      file_modified |-> file[req_path[t]]]]
    /\ clock' = clock + 1
    /\ pc' = [pc EXCEPT ![t] = "cache_insert"]
    /\ UNCHANGED <<lockVars, startVars, confVars, poolVars, cache_hits, cache_misses, voice_cache,
                   evictions, file, handle, req_path, style, result, shut_pc>>

Cached(c) == {p \in DOMAIN c : c[p] # NoEntry}

\* Variant of IsLru: max_by_key, a most-recently-accessed entry.
IsLru_MaxByKey(c, p) ==
    /\ p \in Cached(c)
    /\ \A q \in Cached(c) : c[p].last_accessed >= c[q].last_accessed

\* min_by_key(last_accessed): a least-recently-accessed entry.
IsLru(c, p) ==
    /\ p \in Cached(c)
    /\ \A q \in Cached(c) : c[p].last_accessed <= c[q].last_accessed

\* Variant of AddToCache: the capacity check is missing, nothing is evicted.
AddToCache_NoEvict(t) ==
    /\ pc[t] = "cache_insert"
    /\ ~CacheReadHeld
    /\ voice_cache' = [voice_cache EXCEPT ![req_path[t]] = entry[t]]
    /\ pc' = [pc EXCEPT ![t] = "engine"]
    /\ UNCHANGED <<lockVars, startVars, confVars, poolVars, cache_hits, cache_misses, clock,
                   evictions, file, handle, req_path, style, entry, result,
                   shut_pc>>

\* Variant of AddToCache: evicts when cache.len() > capacity, not >=.
AddToCache_EvictWhenOver(t) ==
    /\ pc[t] = "cache_insert"
    /\ ~CacheReadHeld
    /\ LET p == req_path[t]
       IN IF /\ Cardinality(Cached(voice_cache)) > cache_size
             /\ Cached(voice_cache) # {}
            THEN \E lru \in DOMAIN voice_cache :
                    /\ IsLru(voice_cache, lru)
                    /\ voice_cache' = [[voice_cache EXCEPT ![lru] = NoEntry]
                                          EXCEPT ![p] = entry[t]]
                    /\ evictions' = evictions + 1
            ELSE /\ voice_cache' = [voice_cache EXCEPT ![p] = entry[t]]
                 /\ UNCHANGED evictions
    /\ pc' = [pc EXCEPT ![t] = "engine"]
    /\ UNCHANGED <<lockVars, startVars, confVars, poolVars, cache_hits, cache_misses, clock, file,
                   handle, req_path, style, entry, result, shut_pc>>

\* add_to_cache under voice_cache.write(): evict when full, then insert.
AddToCache(t) ==
    /\ pc[t] = "cache_insert"
    /\ ~CacheReadHeld
    /\ LET p == req_path[t]
       IN IF /\ Cardinality(Cached(voice_cache)) >= cache_size
             /\ Cached(voice_cache) # {}
            THEN \E lru \in DOMAIN voice_cache :
                    /\ IsLru(voice_cache, lru)
                    /\ voice_cache' = [[voice_cache EXCEPT ![lru] = NoEntry]
                                          EXCEPT ![p] = entry[t]]
                    /\ evictions' = evictions + 1
            ELSE /\ voice_cache' = [voice_cache EXCEPT ![p] = entry[t]]
                 /\ UNCHANGED evictions
    /\ pc' = [pc EXCEPT ![t] = "engine"]
    /\ UNCHANGED <<lockVars, startVars, confVars, poolVars, cache_hits, cache_misses, clock, file,
                   handle, req_path, style, entry, result, shut_pc>>

\* ------------------------------------------------------------------ synthesis
\* EngineHandle::engine: looks the handle's engine_id up in the map.
HandleEngine(t) ==
    /\ pc[t] = "engine"
    /\ ~EnginesWriteHeld
    /\ IF handle[t] \in engines
         THEN /\ pc' = [pc EXCEPT ![t] = "lock"]
              /\ UNCHANGED <<handle, style, entry, result>>
         ELSE Respond(t, "engine_access_failed")
    /\ UNCHANGED <<lockVars, startVars, confVars, poolVars, cacheVars, file, req_path, shut_pc>>

\* Variant of LockEngine: the engine is handed out without its mutex.
LockEngine_NoMutex(t) ==
    /\ pc[t] = "lock"
    /\ engineLock' = [engineLock EXCEPT ![handle[t]] = t]
    /\ pc' = [pc EXCEPT ![t] = "synth"]
    /\ UNCHANGED <<lockVars, startVars, confVars, permits, engines, created, total_checkouts,
                   cacheVars, file, handle, req_path, style, entry, result,
                   shut_pc>>

\* text_to_speech_mutex.lock().await
LockEngine(t) ==
    /\ pc[t] = "lock"
    /\ engineLock[handle[t]] = NoTask
    /\ engineLock' = [engineLock EXCEPT ![handle[t]] = t]
    /\ pc' = [pc EXCEPT ![t] = "synth"]
    /\ UNCHANGED <<lockVars, startVars, confVars, permits, engines, created, total_checkouts,
                   cacheVars, file, handle, req_path, style, entry, result,
                   shut_pc>>

\* Variant of Synthesize: the error return keeps the engine's guard.
Synthesize_KeepGuard(t) ==
    /\ pc[t] = "synth"
    /\ \E r \in {"ok", "tts_generation_failed"} :
          /\ Respond(t, r)
          /\ engineLock' = IF r = "ok"
                             THEN [engineLock EXCEPT ![handle[t]] = NoTask]
                             ELSE engineLock
    /\ UNCHANGED <<lockVars, startVars, confVars, permits, engines, created, total_checkouts,
                   cacheVars, file, req_path, shut_pc>>

\* text_to_speech.call(..) returns; the guard and the handle are dropped.
Synthesize(t) ==
    /\ pc[t] = "synth"
    /\ engineLock' = [engineLock EXCEPT ![handle[t]] = NoTask]
    /\ \E r \in {"ok", "tts_generation_failed"} : Respond(t, r)
    /\ UNCHANGED <<lockVars, startVars, confVars, permits, engines, created, total_checkouts,
                   cacheVars, file, req_path, shut_pc>>

\* ------------------------------------------------------------------ environment
\* The style file is edited on disk: new content, newer mtime.
ModifyFile ==
    /\ \E p \in DOMAIN file :
          /\ file[p] < MaxMods
          /\ file' = [file EXCEPT ![p] = file[p] + 1]
    /\ UNCHANGED <<lockVars, startVars, confVars, poolVars, cacheVars, pc, handle, req_path, style,
                   entry, result, shut_pc>>

\* _shutdown: engines.write(), engines.clear()
ShutdownEngines ==
    /\ shut_pc = "idle"
    /\ engines' = {}
    /\ shut_pc' = "engines_cleared"
    /\ UNCHANGED <<lockVars, startVars, confVars, permits, created, engineLock, total_checkouts,
                   cacheVars, file, pc, handle, req_path, style, entry, result>>

\* Variant of ShutdownCache: _shutdown also resets the statistics.
ShutdownCache_ResetStats ==
    /\ shut_pc = "engines_cleared"
    /\ ~CacheReadHeld
    /\ voice_cache' = [p \in DOMAIN voice_cache |-> NoEntry]
    /\ cache_hits' = 0
    /\ cache_misses' = 0
    /\ shut_pc' = "idle"
    /\ UNCHANGED <<lockVars, startVars, confVars, poolVars, clock, evictions, file,
                   pc, handle, req_path, style, entry, result>>

\* Variant of ShutdownCache: the cache is left as it is.
ShutdownCache_KeepCache ==
    /\ shut_pc = "engines_cleared"
    /\ ~CacheReadHeld
    /\ shut_pc' = "idle"
    /\ UNCHANGED <<lockVars, startVars, confVars, poolVars, cacheVars, file,
                   pc, handle, req_path, style, entry, result>>

\* _shutdown: voice_cache.write(), cache.clear(); both guards are dropped.
ShutdownCache ==
    /\ shut_pc = "engines_cleared"
    /\ ~CacheReadHeld
    /\ voice_cache' = [p \in DOMAIN voice_cache |-> NoEntry]
    /\ shut_pc' = "idle"
    /\ UNCHANGED <<lockVars, startVars, confVars, poolVars, cache_hits, cache_misses, clock,
                   evictions, file,
                   pc, handle, req_path, style, entry, result>>

\* ------------------------------------------------------------------ get_stats
\* PoolStats::engine_replacements: 0 by Default, and nothing writes it.
engine_replacements == 0

\* get_stats: the PoolStatsResponse built from the three guarded values.
get_stats ==
    [total_engines |-> Cardinality(engines),
     available_permits |-> permits,
     cached_voice_styles |-> Cardinality(Cached(voice_cache)),
     total_checkouts |-> total_checkouts,
     cache_hits |-> cache_hits,
     cache_misses |-> cache_misses,
     engine_replacements |-> engine_replacements]

\* ------------------------------------------------------------------ spec
Next ==
    \/ \E t \in Tasks : StartRequest(t)
    \/ \E t \in Tasks : Acquire(t)
    \/ \E t \in Tasks : CheckoutTimeout(t)
    \/ \E t \in Tasks : CountCheckout(t)
    \/ \E t \in Tasks : CheckEmpty(t)
    \/ \E t \in Tasks : LoadEngineOk(t)
    \/ \E t \in Tasks : LoadEngineErr(t)
    \/ \E t \in Tasks : CreateInsert(t)
    \/ \E t \in Tasks : SelectEngine(t)
    \/ \E t \in Tasks : StyleCheck(t)
    \/ \E t \in Tasks : HitCount(t)
    \/ \E t \in Tasks : MissCount(t)
    \/ \E t \in Tasks : LoadStyle(t)
    \/ \E t \in Tasks : LoadStyleErr(t)
    \/ \E t \in Tasks : EntryNew(t)
    \/ \E t \in Tasks : EntryNewErr(t)
    \/ \E t \in Tasks : AddToCache(t)
    \/ \E t \in Tasks : HandleEngine(t)
    \/ \E t \in Tasks : LockEngine(t)
    \/ \E t \in Tasks : Synthesize(t)
    \/ ModifyFile
    \/ ShutdownEngines
    \/ ShutdownCache

Spec == Init /\ [][Next]_vars

\* ------------------------------------------------------------------ new
\* The state before TTSEnginePool::new has run: no semaphore, no engines.
\* The initial values of server and new_pc are set by the specification.
NoPool ==
    /\ permits = 0
    /\ engines = {}
    /\ created = 0
    /\ engineLock = [e \in EngineIds |-> NoTask]
    /\ total_checkouts = 0
    /\ cache_hits = 0
    /\ cache_misses = 0
    /\ voice_cache = [p \in Paths |-> NoEntry]
    /\ file = [p \in Paths |-> 0]
    /\ clock = 0
    /\ evictions = 0
    /\ pc = [t \in Tasks |-> "idle"]
    /\ handle = [t \in Tasks |-> NoEngine]
    /\ req_path = [t \in Tasks |-> "A"]
    /\ style = [t \in Tasks |-> NoStyle]
    /\ entry = [t \in Tasks |-> NoEntry]
    /\ result = [t \in Tasks |-> "none"]
    /\ shut_pc = "idle"
    /\ NoLocks

reqVars == <<pc, handle, req_path, style, entry, result>>

\* Variant of NewValidate: only the lower bound of the pool size is checked.
NewValidate_NoUpperBound ==
    /\ new_pc = "start"
    /\ IF pool_size = 0
         THEN /\ new_pc' = "config_error"
              /\ UNCHANGED permits
         ELSE /\ permits' = pool_size
              /\ new_pc' = IF warmup_on_startup THEN "warmup" ELSE "ready"
    /\ UNCHANGED <<lockVars, server, confVars, engines, created, engineLock,
                   total_checkouts, cacheVars, file, reqVars, shut_pc>>

\* new: the pool size is validated, then the pool is built with pool_size
\* permits and an empty engine map and cache.
NewValidate ==
    /\ new_pc = "start"
    /\ IF pool_size = 0 \/ pool_size > PoolSizeLimit
         THEN /\ new_pc' = "config_error"
              /\ UNCHANGED permits
         ELSE /\ permits' = pool_size
              /\ new_pc' = IF warmup_on_startup THEN "warmup" ELSE "ready"
    /\ UNCHANGED <<lockVars, server, confVars, engines, created, engineLock,
                   total_checkouts, cacheVars, file, reqVars, shut_pc>>

\* warmup: one round of the loop, load_text_to_speech succeeds and the
\* engine is inserted under a fresh id.
WarmupLoadOk ==
    /\ new_pc = "warmup"
    /\ Cardinality(engines) < pool_size
    /\ created' = created + 1
    /\ engines' = engines \cup {created + 1}
    /\ UNCHANGED <<lockVars, startVars, confVars, permits, engineLock, total_checkouts,
                   cacheVars, file, reqVars, shut_pc>>

\* warmup: load_text_to_speech fails; warmup and new return the error and
\* the pool built so far is dropped.
WarmupLoadErr ==
    /\ new_pc = "warmup"
    /\ Cardinality(engines) < pool_size
    /\ new_pc' = "warmup_error"
    /\ engines' = {}
    /\ permits' = 0
    /\ UNCHANGED <<lockVars, server, confVars, created, engineLock, total_checkouts,
                   cacheVars, file, reqVars, shut_pc>>

\* Variant of WarmupDone: new returns the pool without waiting for the end
\* of the warmup loop.
WarmupDone_Early ==
    /\ new_pc = "warmup"
    /\ new_pc' = "ready"
    /\ UNCHANGED <<lockVars, server, confVars, poolVars, cacheVars, file, reqVars, shut_pc>>

\* warmup: the loop has run pool_size rounds; new returns Ok(pool).
WarmupDone ==
    /\ new_pc = "warmup"
    /\ Cardinality(engines) = pool_size
    /\ new_pc' = "ready"
    /\ UNCHANGED <<lockVars, server, confVars, poolVars, cacheVars, file, reqVars, shut_pc>>

\* ------------------------------------------------------------------ start_server
\* TcpListener::bind succeeds or fails; a failure ends start_server.
ServerBind ==
    /\ server = "bind"
    /\ \E ok \in BOOLEAN : server' = IF ok THEN "pool_init" ELSE "failed"
    /\ UNCHANGED <<lockVars, new_pc, confVars, poolVars, cacheVars, file, reqVars, shut_pc>>

\* if config.tts.engine_pool_size > 1 { TTSEnginePool::new(..) } else { None }
ServerInitPool ==
    /\ server = "pool_init"
    /\ new_pc = "not_called"
    /\ IF pool_size > 1
         THEN new_pc' = "start" /\ UNCHANGED server
         ELSE server' = "serving_fallback" /\ UNCHANGED new_pc
    /\ UNCHANGED <<lockVars, confVars, poolVars, cacheVars, file, reqVars, shut_pc>>

\* match new(..) { Ok(pool) => Some(pool), Err(e) => { warn!(..); None } },
\* then the router is built and served.
ServerPoolResult ==
    /\ server = "pool_init"
    /\ new_pc \in {"ready", "config_error", "warmup_error"}
    /\ server' = IF new_pc = "ready" THEN "serving_pool" ELSE "serving_fallback"
    /\ UNCHANGED <<lockVars, new_pc, confVars, poolVars, cacheVars, file, reqVars, shut_pc>>

\* A library user calls new(config), or start_server(config) runs, with any
\* configuration.
InitNew ==
    /\ pool_size \in 0..MaxConfigSize
    /\ cache_size \in 0..MaxConfigCacheSize
    /\ warmup_on_startup \in BOOLEAN
    /\ NoPool
    /\ \/ server = "none" /\ new_pc = "start"
       \/ server = "bind" /\ new_pc = "not_called"

NextNew ==
    \/ NewValidate
    \/ WarmupLoadOk
    \/ WarmupLoadErr
    \/ WarmupDone
    \/ ServerBind
    \/ ServerInitPool
    \/ ServerPoolResult

SpecNew == InitNew /\ [][NextNew]_vars

\* The pool from its construction on, built by start_server or by a direct
\* call of new, then used by the requests.  Nothing calls _shutdown.
InitServer ==
    /\ pool_size \in 1..MaxPoolSize
    /\ cache_size \in 1..MaxCacheSize
    /\ warmup_on_startup \in BOOLEAN
    /\ NoPool
    /\ \/ server = "none" /\ new_pc = "start"
       \/ server = "bind" /\ new_pc = "not_called"

NextRequests ==
    \/ \E t \in Tasks : StartRequest(t)
    \/ \E t \in Tasks : Acquire(t)
    \/ \E t \in Tasks : CheckoutTimeout(t)
    \/ \E t \in Tasks : CountCheckout(t)
    \/ \E t \in Tasks : CheckEmpty(t)
    \/ \E t \in Tasks : LoadEngineOk(t)
    \/ \E t \in Tasks : LoadEngineErr(t)
    \/ \E t \in Tasks : CreateInsert(t)
    \/ \E t \in Tasks : SelectEngine(t)
    \/ \E t \in Tasks : StyleCheck(t)
    \/ \E t \in Tasks : HitCount(t)
    \/ \E t \in Tasks : MissCount(t)
    \/ \E t \in Tasks : LoadStyle(t)
    \/ \E t \in Tasks : LoadStyleErr(t)
    \/ \E t \in Tasks : EntryNew(t)
    \/ \E t \in Tasks : EntryNewErr(t)
    \/ \E t \in Tasks : AddToCache(t)
    \/ \E t \in Tasks : HandleEngine(t)
    \/ \E t \in Tasks : LockEngine(t)
    \/ \E t \in Tasks : Synthesize(t)
    \/ ModifyFile

NextServer ==
    \/ NextNew
    \/ /\ new_pc = "ready"
       /\ server \in {"none", "serving_pool"}
       /\ NextRequests

SpecServer == InitServer /\ [][NextServer]_vars

\* ------------------------------------------------------------------ lookups
\* One client of the pool calls the public get_voice_style directly, one
\* call after the other; caller t is the t-th call.
InitLookups ==
    /\ pool_size = 1
    /\ cache_size \in 1..MaxLookupCacheSize
    /\ warmup_on_startup = FALSE
    /\ permits = pool_size
    /\ engines = {}
    /\ created = 0
    /\ engineLock = [e \in EngineIds |-> NoTask]
    /\ total_checkouts = 0
    /\ cache_hits = 0
    /\ cache_misses = 0
    /\ voice_cache = [p \in LookupPaths |-> NoEntry]
    /\ file = [p \in LookupPaths |-> 0]
    /\ clock = 0
    /\ evictions = 0
    /\ pc = [t \in Callers |-> "idle"]
    /\ handle = [t \in Callers |-> NoEngine]
    /\ req_path = [t \in Callers |-> "A"]
    /\ style = [t \in Callers |-> NoStyle]
    /\ entry = [t \in Callers |-> NoEntry]
    /\ result = [t \in Callers |-> "none"]
    /\ shut_pc = "idle"
    /\ new_pc = "ready"
    /\ server = "none"
    /\ NoLocks

\* pool.get_voice_style(voice_path) is called, after the previous call has
\* returned.
CallGetVoiceStyle(t) ==
    /\ pc[t] = "idle"
    /\ IF t = 1 THEN TRUE ELSE pc[t - 1] = "done"
    /\ \E p \in DOMAIN voice_cache : req_path' = [req_path EXCEPT ![t] = p]
    /\ pc' = [pc EXCEPT ![t] = "style_check"]
    /\ UNCHANGED <<lockVars, startVars, confVars, poolVars, cacheVars, file, handle, style,
                   entry, result, shut_pc>>

\* get_voice_style returns Ok(style) to a caller that holds no handle.
ReturnStyle(t) ==
    /\ pc[t] = "engine"
    /\ handle[t] = NoEngine
    /\ Respond(t, "ok")
    /\ UNCHANGED <<lockVars, startVars, confVars, poolVars, cacheVars, file, req_path, shut_pc>>

NextLookups ==
    \/ \E t \in Callers : CallGetVoiceStyle(t)
    \/ \E t \in Callers : StyleCheck(t)
    \/ \E t \in Callers : HitCount(t)
    \/ \E t \in Callers : MissCount(t)
    \/ \E t \in Callers : LoadStyle(t)
    \/ \E t \in Callers : LoadStyleErr(t)
    \/ \E t \in Callers : EntryNew(t)
    \/ \E t \in Callers : EntryNewErr(t)
    \/ \E t \in Callers : AddToCache(t)
    \/ \E t \in Callers : ReturnStyle(t)
    \/ ModifyFile

SpecLookups == InitLookups /\ [][NextLookups]_vars

\* ------------------------------------------------------------------ RwLocks
\* The calls of the pool with their RwLocks spelled out.  A tokio RwLock is
\* fair: the requests are queued and granted in FIFO order, so that a reader
\* that arrives behind a queued writer waits for it.  A task calls checkout
\* and then engine() on its handle, or get_voice_style, or get_stats.

\* lock.read().await / lock.write().await: the request that each position
\* of a task makes, and the position at which it waits for the guard.
LockRequests ==
    [count         |-> <<"stats", "w", "count_wait">>,
     check_empty   |-> <<"engines", "r", "check_empty_wait">>,
     create_insert |-> <<"engines", "w", "create_insert_wait">>,
     select        |-> <<"engines", "r", "select_wait">>,
     engine        |-> <<"engines", "r", "engine_wait">>,
     style_check   |-> <<"voice_cache", "r", "style_check_wait">>,
     miss_count    |-> <<"stats", "w", "miss_count_wait">>,
     cache_insert  |-> <<"voice_cache", "w", "cache_insert_wait">>,
     get_stats     |-> <<"engines", "r", "gs_engines_wait">>]

\* The request of t is the oldest one of lock l and no live guard excludes it.
CanGrant(t, l, m) ==
    /\ lockq[l] # <<>>
    /\ Head(lockq[l]) = <<t, m>>
    /\ IF m = "r"
         THEN \A g \in lockheld[l] : g[2] = "r"
         ELSE lockheld[l] = {}

\* The guards of t are dropped.
Dropped(t) == [l \in Locks |-> {g \in lockheld[l] : g[1] # t}]

\* The pool is at rest: as new has built it, or as it is after a first
\* get_voice_style("A") has loaded and cached A and has returned.
InitLocks ==
    /\ pool_size = MaxPoolSize
    /\ cache_size \in 1..MaxCacheSize
    /\ warmup_on_startup = FALSE
    /\ permits = pool_size
    /\ engines = {}
    /\ created = 0
    /\ engineLock = [e \in EngineIds |-> NoTask]
    /\ total_checkouts = 0
    /\ cache_hits = 0
    /\ file = [p \in Paths |-> 0]
    /\ \E looked_up \in BOOLEAN :
          IF looked_up
            THEN /\ voice_cache = [p \in Paths |->
                                     IF p = "A"
                                       THEN [voice_style |-> 0, last_accessed |-> 0,
                                             file_modified |-> 0]
                                       ELSE NoEntry]
                 /\ cache_misses = 1
                 /\ clock = 1
            ELSE /\ voice_cache = [p \in Paths |-> NoEntry]
                 /\ cache_misses = 0
                 /\ clock = 0
    /\ evictions = 0
    /\ pc = [t \in LockTasks |-> "idle"]
    /\ handle = [t \in LockTasks |-> NoEngine]
    /\ req_path = [t \in LockTasks |-> "A"]
    /\ style = [t \in LockTasks |-> NoStyle]
    /\ entry = [t \in LockTasks |-> NoEntry]
    /\ result = [t \in LockTasks |-> "none"]
    /\ shut_pc = "idle"
    /\ new_pc = "ready"
    /\ server = "none"
    /\ NoLocks

\* A task calls pool.checkout(), pool.get_voice_style(path) or
\* pool.get_stats().
Invoke(t) ==
    /\ pc[t] = "idle"
    /\ IF t = 1 THEN TRUE ELSE pc[t - 1] # "idle"
    /\ \/ /\ \E first \in {"acquire", "get_stats"} : pc' = [pc EXCEPT ![t] = first]
          /\ UNCHANGED req_path
       \/ /\ pc' = [pc EXCEPT ![t] = "style_check"]
          /\ \E p \in Paths : req_path' = [req_path EXCEPT ![t] = p]
    /\ UNCHANGED <<lockVars, startVars, confVars, poolVars, cacheVars, file, handle,
                   style, entry, result, shut_pc>>

\* The task calls read() or write() and joins the queue of the lock.
LockRequest(t) ==
    /\ pc[t] \in DOMAIN LockRequests
    /\ LET req == LockRequests[pc[t]]
       IN /\ lockq' = [lockq EXCEPT ![req[1]] = Append(@, <<t, req[2]>>)]
          /\ pc' = [pc EXCEPT ![t] = req[3]]
    /\ UNCHANGED <<lockheld, startVars, confVars, poolVars, cacheVars, file, handle,
                   req_path, style, entry, result, shut_pc>>

\* checkout: { let mut stats = stats.write().await; stats.total_checkouts += 1; }
CountCheckoutLocked(t) ==
    /\ pc[t] = "count_wait"
    /\ CanGrant(t, "stats", "w")
    /\ lockq' = [lockq EXCEPT !["stats"] = Tail(@)]
    /\ total_checkouts' = total_checkouts + 1
    /\ pc' = [pc EXCEPT ![t] = "check_empty"]
    /\ UNCHANGED <<lockheld, startVars, confVars, permits, engines, created, engineLock,
                   cacheVars, file, handle, req_path, style, entry, result, shut_pc>>

\* Variant of CheckEmptyLocked: the drop(engines) before create_engine is
\* missing, the read guard lives until the end of the block.
CheckEmptyLocked_NoDrop(t) ==
    /\ pc[t] = "check_empty_wait"
    /\ CanGrant(t, "engines", "r")
    /\ lockq' = [lockq EXCEPT !["engines"] = Tail(@)]
    /\ IF engines = {}
         THEN /\ lockheld' = [lockheld EXCEPT !["engines"] = @ \cup {<<t, "r">>}]
              /\ pc' = [pc EXCEPT ![t] = "create_load"]
         ELSE /\ pc' = [pc EXCEPT ![t] = "select"]
              /\ UNCHANGED lockheld
    /\ UNCHANGED <<startVars, confVars, poolVars, cacheVars, file, handle, req_path,
                   style, entry, result, shut_pc>>

\* checkout: { let engines = engines.read().await;
\*             if engines.is_empty() { drop(engines); create_engine().await?; } }
CheckEmptyLocked(t) ==
    /\ pc[t] = "check_empty_wait"
    /\ CanGrant(t, "engines", "r")
    /\ lockq' = [lockq EXCEPT !["engines"] = Tail(@)]
    /\ pc' = [pc EXCEPT ![t] = IF engines = {} THEN "create_load" ELSE "select"]
    /\ UNCHANGED <<lockheld, startVars, confVars, poolVars, cacheVars, file, handle,
                   req_path, style, entry, result, shut_pc>>

\* create_engine: let mut engines = engines.write().await; engines.insert(..)
CreateInsertLocked(t) ==
    /\ pc[t] = "create_insert_wait"
    /\ CanGrant(t, "engines", "w")
    /\ lockq' = [lockq EXCEPT !["engines"] = Tail(@)]
    /\ lockheld' = Dropped(t)
    /\ created' = created + 1
    /\ engines' = engines \cup {created + 1}
    /\ pc' = [pc EXCEPT ![t] = "select"]
    /\ UNCHANGED <<startVars, confVars, permits, engineLock, total_checkouts,
                   cacheVars, file, handle, req_path, style, entry, result, shut_pc>>

\* checkout: engines.read().await, keys().next().unwrap(); checkout returns
\* the handle and drops _permit; the caller goes on to handle.engine().
SelectEngineLocked(t) ==
    /\ pc[t] = "select_wait"
    /\ CanGrant(t, "engines", "r")
    /\ lockq' = [lockq EXCEPT !["engines"] = Tail(@)]
    /\ permits' = permits + 1
    /\ IF engines = {}
         THEN /\ Respond(t, "panic")
         ELSE /\ \E e \in engines : handle' = [handle EXCEPT ![t] = e]
              /\ pc' = [pc EXCEPT ![t] = "engine"]
              /\ UNCHANGED <<style, entry, result>>
    /\ UNCHANGED <<lockheld, startVars, confVars, engines, created, engineLock,
                   total_checkouts, cacheVars, file, req_path, shut_pc>>

\* EngineHandle::engine under engines.read(); the caller then drops the
\* handle.
HandleEngineLocked(t) ==
    /\ pc[t] = "engine_wait"
    /\ CanGrant(t, "engines", "r")
    /\ lockq' = [lockq EXCEPT !["engines"] = Tail(@)]
    /\ Respond(t, IF handle[t] \in engines THEN "ok" ELSE "engine_access_failed")
    /\ UNCHANGED <<lockheld, startVars, confVars, poolVars, cacheVars, file, req_path,
                   shut_pc>>

\* get_voice_style: the cache check under voice_cache.read().  On a hit the
\* read guard stays alive while stats.write() is awaited; otherwise it is
\* dropped at the end of the block.
StyleCheckLocked(t) ==
    /\ pc[t] = "style_check_wait"
    /\ CanGrant(t, "voice_cache", "r")
    /\ LET p == req_path[t]
           e == voice_cache[p]
       IN IF e # NoEntry /\ is_valid(e, p)
            THEN /\ lockq' = [lockq EXCEPT !["voice_cache"] = Tail(@),
                                           !["stats"] = Append(@, <<t, "w">>)]
                 /\ lockheld' = [lockheld EXCEPT !["voice_cache"] = @ \cup {<<t, "r">>}]
                 /\ style' = [style EXCEPT ![t] = e.voice_style]
                 /\ pc' = [pc EXCEPT ![t] = "hit_count_wait"]
            ELSE /\ lockq' = [lockq EXCEPT !["voice_cache"] = Tail(@)]
                 /\ pc' = [pc EXCEPT ![t] = "miss_count"]
                 /\ UNCHANGED <<lockheld, style>>
    /\ UNCHANGED <<startVars, confVars, poolVars, cacheVars, file, handle, req_path,
                   entry, result, shut_pc>>

\* stats.cache_hits += 1; return Ok(..): both guards are dropped.
HitCountLocked(t) ==
    /\ pc[t] = "hit_count_wait"
    /\ CanGrant(t, "stats", "w")
    /\ lockq' = [lockq EXCEPT !["stats"] = Tail(@)]
    /\ lockheld' = Dropped(t)
    /\ cache_hits' = cache_hits + 1
    /\ Respond(t, "ok")
    /\ UNCHANGED <<startVars, confVars, poolVars, cache_misses, voice_cache, clock,
                   evictions, file, req_path, shut_pc>>

\* { let mut stats = stats.write().await; stats.cache_misses += 1; }
MissCountLocked(t) ==
    /\ pc[t] = "miss_count_wait"
    /\ CanGrant(t, "stats", "w")
    /\ lockq' = [lockq EXCEPT !["stats"] = Tail(@)]
    /\ cache_misses' = cache_misses + 1
    /\ pc' = [pc EXCEPT ![t] = "style_load"]
    /\ UNCHANGED <<lockheld, startVars, confVars, poolVars, cache_hits, voice_cache,
                   clock, evictions, file, handle, req_path, style, entry, result,
                   shut_pc>>

\* add_to_cache under voice_cache.write(): evict when full, then insert;
\* get_voice_style returns Ok(voice_style).
AddToCacheLocked(t) ==
    /\ pc[t] = "cache_insert_wait"
    /\ CanGrant(t, "voice_cache", "w")
    /\ lockq' = [lockq EXCEPT !["voice_cache"] = Tail(@)]
    /\ LET p == req_path[t]
       IN IF /\ Cardinality(Cached(voice_cache)) >= cache_size
             /\ Cached(voice_cache) # {}
            THEN \E lru \in DOMAIN voice_cache :
                    /\ IsLru(voice_cache, lru)
                    /\ voice_cache' = [[voice_cache EXCEPT ![lru] = NoEntry]
                                          EXCEPT ![p] = entry[t]]
                    /\ evictions' = evictions + 1
            ELSE /\ voice_cache' = [voice_cache EXCEPT ![p] = entry[t]]
                 /\ UNCHANGED evictions
    /\ Respond(t, "ok")
    /\ UNCHANGED <<lockheld, startVars, confVars, poolVars, cache_hits, cache_misses,
                   clock, file, req_path, shut_pc>>

\* get_stats: engines.read() is granted and kept; stats.read() is awaited.
GetStatsEngines(t) ==
    /\ pc[t] = "gs_engines_wait"
    /\ CanGrant(t, "engines", "r")
    /\ lockq' = [lockq EXCEPT !["engines"] = Tail(@),
                              !["stats"] = Append(@, <<t, "r">>)]
    /\ lockheld' = [lockheld EXCEPT !["engines"] = @ \cup {<<t, "r">>}]
    /\ pc' = [pc EXCEPT ![t] = "gs_stats_wait"]
    /\ UNCHANGED <<startVars, confVars, poolVars, cacheVars, file, handle, req_path,
                   style, entry, result, shut_pc>>

\* get_stats: stats.read() is granted and kept; voice_cache.read() is
\* awaited.
GetStatsStats(t) ==
    /\ pc[t] = "gs_stats_wait"
    /\ CanGrant(t, "stats", "r")
    /\ lockq' = [lockq EXCEPT !["stats"] = Tail(@),
                              !["voice_cache"] = Append(@, <<t, "r">>)]
    /\ lockheld' = [lockheld EXCEPT !["stats"] = @ \cup {<<t, "r">>}]
    /\ pc' = [pc EXCEPT ![t] = "gs_cache_wait"]
    /\ UNCHANGED <<startVars, confVars, poolVars, cacheVars, file, handle, req_path,
                   style, entry, result, shut_pc>>

\* get_stats: voice_cache.read() is granted, the response is built and the
\* three guards are dropped.
GetStatsCache(t) ==
    /\ pc[t] = "gs_cache_wait"
    /\ CanGrant(t, "voice_cache", "r")
    /\ lockq' = [lockq EXCEPT !["voice_cache"] = Tail(@)]
    /\ lockheld' = Dropped(t)
    /\ Respond(t, "stats")
    /\ UNCHANGED <<startVars, confVars, poolVars, cacheVars, file, req_path, shut_pc>>

NextLocks ==
    \/ \E t \in LockTasks : Invoke(t)
    \/ \E t \in LockTasks : LockRequest(t)
    \/ \E t \in LockTasks : Acquire(t)
    \/ \E t \in LockTasks : CheckoutTimeout(t)
    \/ \E t \in LockTasks : CountCheckoutLocked(t)
    \/ \E t \in LockTasks : CheckEmptyLocked(t)
    \/ \E t \in LockTasks : LoadEngineOk(t)
    \/ \E t \in LockTasks : LoadEngineErr(t)
    \/ \E t \in LockTasks : CreateInsertLocked(t)
    \/ \E t \in LockTasks : SelectEngineLocked(t)
    \/ \E t \in LockTasks : HandleEngineLocked(t)
    \/ \E t \in LockTasks : StyleCheckLocked(t)
    \/ \E t \in LockTasks : HitCountLocked(t)
    \/ \E t \in LockTasks : MissCountLocked(t)
    \/ \E t \in LockTasks : LoadStyle(t)
    \/ \E t \in LockTasks : LoadStyleErr(t)
    \/ \E t \in LockTasks : EntryNew(t)
    \/ \E t \in LockTasks : EntryNewErr(t)
    \/ \E t \in LockTasks : AddToCacheLocked(t)
    \/ \E t \in LockTasks : GetStatsEngines(t)
    \/ \E t \in LockTasks : GetStatsStats(t)
    \/ \E t \in LockTasks : GetStatsCache(t)

SpecLocks == InitLocks /\ [][NextLocks]_vars

\* ------------------------------------------------------------------ claims
InCheckout(t) == pc[t] = "acquire" \/ HoldsPermit(t)
InFlight(t) == pc[t] \notin {"idle", "done"}

\* C1: in every reachable state the number of live handles is at most the
\* pool's target size N.
C1_LiveHandlesBounded == Cardinality(LiveHandles) <= pool_size

\* C2: no two handles that are live at the same time are bound to the same
\* engine.
C2_LiveHandlesDistinctEngines ==
    \A t, u \in Tasks : (t # u /\ Live(t) /\ Live(u)) => handle[t] # handle[u]

\* C3: whenever no checkout call is in progress, available_permits equals N
\* minus the number of live handles (the permit lives as long as the handle).
C3_PermitHeldForHandleLifetime ==
    (\A t \in Tasks : ~InCheckout(t))
        => permits = pool_size - Cardinality(LiveHandles)

\* C4: on a pre-warmed pool, a checkout finds a free permit as long as fewer
\* than N checkouts were issued, and no checkout returns a handle while N
\* handles are live.
C4_NthSucceedsNextBlocks ==
    [][warmup_on_startup =>
        /\ (Cardinality({t \in Tasks : InFlight(t)}) < pool_size => permits > 0)
        /\ \A t \in Tasks :
              (Cardinality(LiveHandles) >= pool_size /\ ~Live(t)) => ~Live(t)']_vars

\* C5: with pool size 1, a checkout that is pending while another task holds
\* a handle does not get the permit: it stays pending or fails by timeout.
C5_SecondCheckoutTimesOut ==
    [][\A t \in Tasks :
          (/\ pool_size = 1
           /\ pc[t] = "acquire"
           /\ \E u \in Tasks : u # t /\ Live(u) /\ Live(u)')
          => (pc'[t] = "acquire" \/ result'[t] = "timeout")]_vars

\* C6: a checkout that fails by timeout changes none of available_permits,
\* total_checkouts, the live-engine set, the cache and the cache counters.
C6_TimeoutHasNoSideEffects ==
    [][\A t \in Tasks :
          (pc[t] = "acquire" /\ pc'[t] = "done")
          => /\ result'[t] = "timeout"
             /\ UNCHANGED <<permits, total_checkouts, engines, created,
                            voice_cache, cache_hits, cache_misses>>]_vars

\* C6 witness: a checkout has timed out after another one was counted.
C6_Witness ==
    \E t \in Tasks : result[t] = "timeout" /\ total_checkouts = 1

\* C7: when the lazy engine construction fails, checkout returns the load
\* error, gives its permit back and adds no engine; the permits that are
\* out are exactly those of the checkouts still running.
C7_LoadErrorReturnsPermit ==
    [][/\ \A t \in Tasks :
            (pc[t] = "create_load" /\ pc'[t] = "done")
            => /\ result'[t] = "load_error"
               /\ permits' = permits + 1
               /\ engines' = engines
       /\ permits' = pool_size - Cardinality({t \in Tasks : HoldsPermit(t)'})]_vars

\* C7 witness: a lazy construction has failed and every permit is back.
C7_Witness ==
    \E t \in Tasks : result[t] = "load_error" /\ permits = pool_size /\ engines = {}

\* C8: a request that has returned holds no handle and no engine guard, on
\* every exit path; when no request is in flight, available_permits is N
\* and no engine is locked.
C8_ReleasedOnEveryExit ==
    /\ \A t \in Tasks :
          ~InFlight(t) => /\ ~Live(t)
                          /\ \A e \in EngineIds : engineLock[e] # t
    /\ (\A t \in Tasks : ~InFlight(t))
          => /\ permits = pool_size
             /\ \A e \in EngineIds : engineLock[e] = NoTask

\* C8 witness: two requests that held handles have returned, one of them
\* by a synthesis error.
C8_Witness ==
    /\ \A t \in Tasks : pc[t] = "done"
    /\ \E t \in Tasks : result[t] = "tts_generation_failed"
    /\ \E t \in Tasks : result[t] \in {"ok", "voice_style_load_failed",
                                       "engine_access_failed"}

\* C9: no two synthesis calls are in progress on the same engine.
C9_OneSynthesisPerEngine ==
    \A t, u \in Tasks :
        (t # u /\ pc[t] = "synth" /\ pc[u] = "synth") => handle[t] # handle[u]

\* C9 witness: two handles on the same engine, one task synthesizing and the
\* other waiting for the engine's mutex.
C9_Witness ==
    \E t, u \in Tasks :
        /\ t # u
        /\ handle[t] = handle[u]
        /\ pc[t] = "synth"
        /\ pc[u] = "lock"

\* C10: a value returned as a cache hit was parsed from the file's content
\* as of its latest modification.
C10_HitIsFresh ==
    [][\A t \in Tasks :
          (pc[t] = "style_check" /\ pc'[t] = "hit_count")
          => style'[t] = file[req_path[t]]]_vars

\* The calls made so far by the sequential client are exactly the lookups of
\* ps, in this order, and each has returned Ok.
LookedUp(ps) ==
    /\ Len(ps) <= MaxLookups
    /\ \A i \in DOMAIN pc :
          IF i <= Len(ps)
            THEN pc[i] = "done" /\ result[i] = "ok" /\ req_path[i] = ps[i]
            ELSE pc[i] = "idle"

\* No style file was edited since the pool was built.
Unmodified == \A p \in DOMAIN file : file[p] = 0

\* C11: a lookup that finds an entry whose file's mtime has not advanced is
\* a hit: cache_hits grows by one, cache_misses and the cache stay as they
\* are and the call returns without loading; a lookup that finds an entry
\* whose file's mtime has advanced is a miss that reloads the file and
\* replaces the entry.  Two lookups of the same unmodified path are one miss
\* and one hit.
C11_RepeatedLookupHits ==
    /\ [](\A p \in LookupPaths :
            (LookedUp(<<p, p>>) /\ Unmodified)
                => cache_hits = 1 /\ cache_misses = 1)
    /\ [][\A t \in Callers :
            LET p == req_path[t]
                e == voice_cache[p]
            IN /\ (pc[t] = "style_check" /\ pc'[t] # "style_check" /\ e # NoEntry)
                    => IF file[p] > e.file_modified
                         THEN pc'[t] = "miss_count"
                         ELSE pc'[t] = "hit_count" /\ style'[t] = e.voice_style
               /\ (pc[t] = "hit_count" /\ pc'[t] # "hit_count")
                    => /\ cache_hits' = cache_hits + 1
                       /\ cache_misses' = cache_misses
                       /\ voice_cache' = voice_cache
                       /\ pc'[t] = "engine"
               /\ (pc[t] = "miss_count" /\ pc'[t] # "miss_count")
                    => /\ cache_misses' = cache_misses + 1
                       /\ cache_hits' = cache_hits
                       /\ pc'[t] = "style_load"
               /\ (pc[t] = "cache_insert" /\ pc'[t] # "cache_insert")
                    => /\ voice_cache'[p] = entry[t]
                       /\ entry[t].voice_style = style[t]]_vars

\* C11 witness: two lookups of the same unmodified path, the second a hit.
C11_Witness ==
    /\ LookedUp(<<"A", "A">>)
    /\ Unmodified
    /\ cache_hits = 1
    /\ voice_cache["A"] # NoEntry

\* C12: with capacity 2, after the lookups A, B, A, C of unmodified files
\* the evicted entry is B and A is still cached (the hit on A refreshed it).
C12_HitRefreshesRecency ==
    (cache_size = 2 /\ Unmodified /\ LookedUp(<<"A", "B", "A", "C">>))
        => voice_cache["B"] = NoEntry /\ voice_cache["A"] # NoEntry

\* The first n calls looked up pairwise distinct paths.
DistinctPaths(n) ==
    \A i, j \in 1..n : i # j => req_path[i] # req_path[j]

\* Exactly the first n calls were made and each returned Ok.
Returned(n) ==
    \A i \in DOMAIN pc :
        IF i <= n THEN pc[i] = "done" /\ result[i] = "ok" ELSE pc[i] = "idle"

\* C13: lookups of capacity + 1 distinct paths on an empty cache evict
\* exactly one entry, the one looked up first (the oldest last access), and
\* leave exactly capacity entries; up to capacity distinct lookups evict
\* nothing, and an insert into a cache that is not full removes no entry.
C13_EvictsExactlyTheOldest ==
    /\ [](\A n \in 1..MaxLookups :
            (Returned(n) /\ DistinctPaths(n))
              => /\ n <= cache_size =>
                      /\ evictions = 0
                      /\ Cardinality(Cached(voice_cache)) = n
                 /\ n = cache_size + 1 =>
                      /\ evictions = 1
                      /\ Cardinality(Cached(voice_cache)) = cache_size
                      /\ voice_cache[req_path[1]] = NoEntry)
    /\ [][\A t \in Callers :
            (/\ pc[t] = "cache_insert" /\ pc'[t] # "cache_insert"
             /\ Cardinality(Cached(voice_cache)) < cache_size)
            => /\ evictions' = evictions
               /\ Cached(voice_cache) \subseteq Cached(voice_cache')]_vars

\* C13 witness: capacity 2, three distinct paths looked up, one eviction.
C13_Witness ==
    /\ cache_size = 2
    /\ Returned(3)
    /\ DistinctPaths(3)
    /\ evictions = 1

\* C14: with capacity 1 and unmodified files, in the lookups p, q, p of two
\* distinct paths the second lookup of p is a miss: it never takes the hit
\* path and cache_hits stays 0.
C14_SecondLookupMisses ==
    \A p, q \in LookupPaths :
        (p # q /\ cache_size = 1 /\ Unmodified)
        => /\ LookedUp(<<p, q, p>>) => cache_hits = 0
           /\ (/\ pc[1] = "done" /\ result[1] = "ok" /\ req_path[1] = p
               /\ pc[2] = "done" /\ result[2] = "ok" /\ req_path[2] = q
               /\ req_path[3] = p)
              => pc[3] # "hit_count"

\* C14 witness: the lookups A, B, A have returned, with capacity 1.
C14_Witness ==
    /\ cache_size = 1
    /\ Unmodified
    /\ LookedUp(<<"A", "B", "A">>)
    /\ cache_hits = 0

\* C15: with capacity 1 and unmodified files, after the lookups A, B, A on
\* an empty cache the stats show 2 misses and 1 eviction has taken place.
C15_TwoMissesOneEviction ==
    (cache_size = 1 /\ Unmodified /\ LookedUp(<<"A", "B", "A">>))
        => cache_misses = 2 /\ evictions = 1

\* C15, amended: with capacity 1 and unmodified files, after the lookups
\* A, B, A on an empty cache the stats show 3 misses and no hit, and 2
\* evictions have taken place (B evicted A, then A evicted B).
C15_ThreeMissesTwoEvictions ==
    (cache_size = 1 /\ Unmodified /\ LookedUp(<<"A", "B", "A">>))
        => /\ cache_misses = 3
           /\ cache_hits = 0
           /\ evictions = 2
           /\ Cached(voice_cache) = {"A"}

\* C15 witness: the lookups A, B, A have returned with 3 misses counted.
C15_Witness ==
    /\ cache_size = 1
    /\ Unmodified
    /\ LookedUp(<<"A", "B", "A">>)
    /\ cache_misses = 3
    /\ evictions = 2

\* C16: a checkout that holds a permit on a pool of fewer than N engines,
\* all of them bound to live handles, constructs a new engine; so on a
\* non-warmed pool with N >= 2, two handles live at the same time are bound
\* to distinct engines and the pool holds at least 2 engines.
C16_LazyGrowthToDistinctEngines ==
    [][/\ \A t \in Tasks :
            (/\ pc[t] = "check_empty" /\ pc'[t] # "check_empty"
             /\ Cardinality(engines) < pool_size
             /\ engines \subseteq {handle[u] : u \in LiveHandles})
            => pc'[t] = "create_load"
       /\ (~warmup_on_startup /\ pool_size >= 2)
            => \A t, u \in Tasks :
                  (t # u /\ Live(t)' /\ Live(u)')
                  => /\ handle'[t] # handle'[u]
                     /\ Cardinality(engines') >= 2]_vars


\* C17: new fails with a configuration error, leaving no pool, when the pool
\* size is 0 or above 10, and passes the validation for each size 1..10.
C17_PoolSizeValidated ==
    /\ new_pc = "config_error"
         => /\ pool_size = 0 \/ pool_size > 10
            /\ permits = 0
            /\ engines = {}
    /\ new_pc \in {"warmup", "ready", "warmup_error"} => pool_size \in 1..10
    /\ server = "serving_pool" => pool_size \in 1..10

C17_Witness ==
    /\ new_pc = "config_error"
    /\ pool_size = 11
    /\ engines = {}

PoolFailures == {"timeout", "load_error", "panic", "engine_access_failed"}

\* C18: with warmup on, the pool that new returns holds all N engines, and
\* keeps them; on a warmed pool of size 2 no request of two fails for want of
\* a permit or an engine; a failed load during warmup makes new fail, and the
\* engines built so far are gone and no request is ever served by the pool.
C18_WarmupAllOrNothing ==
    /\ (warmup_on_startup /\ new_pc = "ready")
         => Cardinality(engines) = pool_size
    /\ (/\ warmup_on_startup /\ new_pc = "ready" /\ pool_size = 2
        /\ Cardinality({t \in Tasks : pc[t] # "idle"}) <= 2)
         => \A t \in Tasks : result[t] \notin PoolFailures
    /\ new_pc = "warmup_error"
         => /\ engines = {}
            /\ permits = 0
            /\ server # "serving_pool"
            /\ \A t \in Tasks : pc[t] = "idle"

C18_Witness ==
    /\ warmup_on_startup
    /\ pool_size = 2
    /\ Cardinality(engines) = 2
    /\ Cardinality({t \in Tasks : result[t] = "ok"}) = 2

\* C19: new never returns a pool when the cache capacity is 0.
C19_ZeroCacheCapacityRejected ==
    cache_size = 0 => new_pc # "ready"

\* C20: once the warmup of the pool has failed during start_server, the
\* server never reaches the state in which it accepts requests.
C20_WarmupFailureStopsStartup ==
    (new_pc = "warmup_error" /\ server # "none")
      => server \notin {"serving_pool", "serving_fallback"}

\* C21: available_permits never exceeds N, and the release of a handle
\* raises it by exactly one (and by nothing more when the handle is disposed
\* of again).
C21_ReleaseReturnsOnePermit ==
    /\ [](get_stats.available_permits <= pool_size)
    /\ [][\A t \in Tasks :
            (Live(t) /\ ~Live(t)')
              => get_stats'.available_permits = get_stats.available_permits + 1]_vars

\* C22: total_checkouts, cache_hits, cache_misses and engine_replacements
\* never decrease, whatever checkout, get_voice_style and _shutdown do.
C22_CountersNeverDecrease ==
    [][/\ get_stats'.total_checkouts >= get_stats.total_checkouts
       /\ get_stats'.cache_hits >= get_stats.cache_hits
       /\ get_stats'.cache_misses >= get_stats.cache_misses
       /\ get_stats'.engine_replacements >= get_stats.engine_replacements]_vars

C22_Witness ==
    /\ shut_pc = "idle"
    /\ Cached(voice_cache) = {}
    /\ engines = {}
    /\ get_stats.total_checkouts = 2
    /\ get_stats.cache_hits = 1
    /\ get_stats.cache_misses = 1

\* C23: when _shutdown returns and no request is in flight, get_stats
\* reports no engine and no cached voice style.
C23_ShutdownEmptiesPool ==
    [][(/\ shut_pc = "engines_cleared" /\ shut_pc' = "idle"
        /\ \A t \in Tasks : ~InFlight(t))
         => /\ get_stats'.total_engines = 0
            /\ get_stats'.cached_voice_styles = 0]_vars

C23_Witness ==
    /\ shut_pc = "idle"
    /\ \A t \in Tasks : pc[t] = "done" /\ result[t] = "ok"
    /\ get_stats.total_engines = 0
    /\ get_stats.cached_voice_styles = 0

\* C24: the number of live engines is between 0 and N in every reachable
\* state.
C24_EnginesBounded ==
    get_stats.total_engines \in 0..pool_size

C24_Witness ==
    /\ ~warmup_on_startup
    /\ pool_size = 2
    /\ \A t \in Tasks : pc[t] = "select"
    /\ get_stats.total_engines = 2

\* C25: with a capacity C >= 1 the cache never holds more than C entries.
C25_CacheBounded ==
    cache_size >= 1 => get_stats.cached_voice_styles <= cache_size

C25_Witness ==
    /\ get_stats.cached_voice_styles = cache_size
    /\ evictions = 1
    /\ get_stats.cache_misses = 2
    /\ \A t \in Tasks : pc[t] = "engine"
    /\ req_path[1] # req_path[2]

\* C26: when the entry of the looked-up path is replaced (it was found
\* invalid), the set of cached paths is unchanged: no other path is evicted.
C26_InvalidEntryReplacedInPlace ==
    [][\A t \in Callers :
          (/\ pc[t] = "cache_insert" /\ pc'[t] = "engine"
           /\ voice_cache[req_path[t]] # NoEntry)
            => Cached(voice_cache') = Cached(voice_cache)]_vars

\* The handles checkout has returned: the tasks past checkout whose request
\* did not end inside it.
Returned_Handles ==
    {t \in Tasks : /\ pc[t] \notin {"idle", "acquire"}
                   /\ ~HoldsPermit(t)
                   /\ result[t] \notin {"timeout", "load_error", "panic"}}

\* C29: whenever no checkout is in progress, total_checkouts equals the
\* number of handles checkout has returned.
C29_CheckoutsCountHandles ==
    (\A t \in Tasks : ~InCheckout(t))
        => get_stats.total_checkouts = Cardinality(Returned_Handles)

\* The lookups that have passed the cache check and its counter.
Counted_Lookups ==
    {t \in Tasks :
        \/ pc[t] \in {"style_load", "entry_new", "cache_insert", "engine", "lock", "synth"}
        \/ /\ pc[t] = "done"
           /\ result[t] \notin {"timeout", "load_error", "panic"}}

\* C30: every lookup raises exactly one of cache_hits and cache_misses by
\* one, also when the load fails afterwards: their sum is the number of
\* lookups that have passed the cache check.
C30_EveryLookupCountedOnce ==
    /\ [](get_stats.cache_hits + get_stats.cache_misses = Cardinality(Counted_Lookups))
    /\ [][/\ get_stats'.cache_hits \in {get_stats.cache_hits, get_stats.cache_hits + 1}
           /\ get_stats'.cache_misses \in {get_stats.cache_misses, get_stats.cache_misses + 1}
           /\ get_stats'.cache_hits + get_stats'.cache_misses
                <= get_stats.cache_hits + get_stats.cache_misses + 1]_vars

C30_Witness ==
    /\ get_stats.cache_hits = 0
    /\ get_stats.cache_misses = 2
    /\ result[1] = "voice_style_load_failed"
    /\ result[2] = "ok"

\* The tasks that the request of t waits for: the owners of the guards that
\* exclude it and the tasks queued before it.
WaitsFor(t) ==
    UNION {IF \E i \in DOMAIN lockq[l] : lockq[l][i][1] = t
             THEN LET i == CHOOSE j \in DOMAIN lockq[l] : lockq[l][j][1] = t
                      m == lockq[l][i][2]
                  IN {g[1] : g \in {h \in lockheld[l] :
                                       h[1] # t /\ (m = "w" \/ h[2] = "w")}}
                       \cup {lockq[l][j][1] : j \in 1..(i - 1)}
             ELSE {} : l \in Locks}

\* A load from disk is running in t: load_text_to_speech in create_engine
\* or load_voice_style in get_voice_style.
Loading(t) == pc[t] \in {"create_load", "style_load"}

\* C27: while a task loads an engine or a voice style it owns no guard of
\* the engines, stats or voice_cache lock and waits for none, so that no
\* other call waits for a loading task.
C27_LoadsHoldNoLock ==
    \A t \in LockTasks :
        Loading(t)
          => /\ \A l \in Locks : \A g \in lockheld[l] : g[1] # t
             /\ \A l \in Locks : \A i \in DOMAIN lockq[l] : lockq[l][i][1] # t
             /\ \A u \in LockTasks : t \notin WaitsFor(u)

C27_Witness ==
    /\ pc[1] = "create_load"
    /\ pc[2] = "style_load"
    /\ pc[3] = "gs_cache_wait"
    /\ CanGrant(3, "voice_cache", "r")

\* C28: there is never a set of calls of get_voice_style and get_stats in
\* which every call waits for a lock that another call of the set keeps
\* from it (no deadlock).
C28_NoDeadlock ==
    ~ \E S \in SUBSET LockTasks :
         /\ S # {}
         /\ \A t \in S : WaitsFor(t) \cap S # {}

\* C31: a get_voice_style call that fails in load_voice_style or in the
\* metadata read returns with the cache exactly as it was: no step of the
\* call before the insert touches the cache, and the failing call never
\* reaches the insert.
C31_FailedLoadLeavesCache ==
    [][\A t \in Callers :
          /\ (result[t] = "none" /\ result'[t] = "voice_style_load_failed")
               => /\ pc[t] \in {"style_load", "entry_new"}
                  /\ voice_cache' = voice_cache
                  /\ evictions' = evictions
          /\ (pc[t] \in {"style_check", "miss_count", "style_load", "entry_new"}
               /\ pc'[t] # pc[t])
               => voice_cache' = voice_cache]_vars

C31_Witness ==
    /\ req_path[3] = "A"
    /\ result[3] = "voice_style_load_failed"
    /\ req_path[4] = "B"
    /\ result[4] = "ok"
    /\ get_stats.cache_hits = 1
    /\ Cached(voice_cache) = {"A", "B"}
    /\ ~is_valid(voice_cache["A"], "A")

\* C32: checkout never panics: whenever it selects an engine, the engine
\* set is not empty.
C32_CheckoutNeverPanics ==
    /\ [][\A t \in Tasks :
            (pc[t] = "select" /\ pc'[t] # "select") => engines # {}]_vars
    /\ [](\A t \in Tasks : result[t] # "panic")

\* C33: the engine of a live handle is in the engine set, and engine()
\* never fails while the handle is live.
C33_LiveHandleKeepsEngine ==
    /\ \A t \in Tasks : Live(t) => handle[t] \in engines
    /\ \A t \in Tasks : result[t] # "engine_access_failed"
====
